---- MODULE Spec2Model ----
(***************************************************************************)
(* Iterative joke refinement loop of the Streamlit application             *)
(* (src/app/main.py) with its Performer and Critic agents                  *)
(* (src/app/agents/performer.py, src/app/agents/critic.py) and the         *)
(* workflow that sequences them (src/app/graph/workflow.py).               *)
(*                                                                         *)
(* Texts (LLM responses, jokes) are sequences of lexemes.  A lexeme is a   *)
(* string: a brace, a markdown fence, a blank, a prose word, or one        *)
(* "key": value member of a JSON object.                                   *)
(***************************************************************************)
EXTENDS Integers, Sequences, FiniteSets, TLC

VARIABLES
    history,            \* st.session_state.history
    workflow_complete,  \* st.session_state.workflow_complete
    workflow,           \* st.session_state.workflow
    lastAction,         \* the action of the last script run
    lastPrompt,         \* the topic it was given ("n/a" when it takes none)
    before,             \* length of the history and the flag when it began
    outcome,            \* how it ended
    calls,              \* the llm.invoke calls it made, in order
    other,              \* st.session_state of the other browser session
    current,            \* the session whose script run the fields above are
    decoding,           \* a response of the Critic's model under decoding
    cycle_audio,        \* st.session_state["cycle_audio"]
    pending             \* the action whose script run has not ended yet

vars == <<history, workflow_complete, workflow,
          lastAction, lastPrompt, before, outcome, calls,
          other, current, decoding, cycle_audio, pending>>

----------------------------------------------------------------------------
(* Bounds of the model *)

\* longest History explored; revise and reevaluate are cut off there
MaxHistory == 3

\* longest History explored when two sessions run side by side
MaxSessionsHistory == 2

\* longest text, in lexemes, of the free texts given to the decoder
MaxText == 3

----------------------------------------------------------------------------
(* Texts *)

WS == " "

\* the markdown code fences: three backquotes with and without the json tag
FENCE_JSON == "'''json"
FENCE == "'''"

\* a prose word: any text without braces, fences or blanks
PROSE == "prose"

\* members of a JSON object, one lexeme per "key": value pair
ScoreLex == {"score:70", "score:85", "score:150"}
AgeLex == {"age:Teen", "age:Senior"}
StrengthsLex == {"strengths:1", "strengths:0"}
WeaknessesLex == {"weaknesses:1"}
SuggestionsLex == {"suggestions:1"}
VerdictLex == {"verdict"}
MemberLex == ScoreLex \cup AgeLex \cup StrengthsLex \cup WeaknessesLex
             \cup SuggestionsLex \cup VerdictLex

\* str.strip(): drop the blanks at both ends
RECURSIVE lstrip(_)
lstrip(t) == IF t # <<>> /\ Head(t) = WS THEN lstrip(Tail(t)) ELSE t

RECURSIVE rstrip(_)
rstrip(t) == IF t # <<>> /\ t[Len(t)] = WS
             THEN rstrip(SubSeq(t, 1, Len(t) - 1)) ELSE t

strip(t) == rstrip(lstrip(t))

\* the lexeme is neither brace: the regex class [^{}]
NotBrace(x) == x # "{" /\ x # "}"

\* [^{}]* from position i, greedy: the first position at or after i that
\* holds a brace, Len(t) + 1 when there is none
RECURSIVE SkipNonBrace(_, _)
SkipNonBrace(t, i) ==
    IF i <= Len(t) /\ NotBrace(t[i]) THEN SkipNonBrace(t, i + 1) ELSE i

\* (?:\{[^{}]*\}[^{}]*)*\} from position k, which holds a brace or is past
\* the end: the position of the closing brace of the match, 0 for no match
RECURSIVE MatchGroups(_, _)
MatchGroups(t, k) ==
    IF k > Len(t) THEN 0
    ELSE IF t[k] = "}" THEN k
    ELSE LET k2 == SkipNonBrace(t, k + 1)
         IN  IF k2 <= Len(t) /\ t[k2] = "}"
             THEN MatchGroups(t, SkipNonBrace(t, k2 + 1))
             ELSE 0

\* the regex json_pattern anchored at position i: the end of its match, or 0
MatchEnd(t, i) ==
    IF i <= Len(t) /\ t[i] = "{"
    THEN MatchGroups(t, SkipNonBrace(t, i + 1))
    ELSE 0

\* re.findall(json_pattern, content)[0] when there is a match, else content
FirstMatch(t) ==
    LET starts == {i \in 1..Len(t) : MatchEnd(t, i) > 0}
    IN  IF starts = {} THEN t
        ELSE LET i == CHOOSE s \in starts : \A r \in starts : s <= r
             IN  SubSeq(t, i, MatchEnd(t, i))

\* CriticAgent._extract_json_from_response
extract_json_from_response(content) ==
    LET c1 == strip(content)
        c2 == IF c1 # <<>> /\ Head(c1) \in {FENCE_JSON, FENCE}
              THEN Tail(c1) ELSE c1
        c3 == IF c2 # <<>> /\ c2[Len(c2)] = FENCE
              THEN SubSeq(c2, 1, Len(c2) - 1) ELSE c2
    IN  FirstMatch(strip(c3))

----------------------------------------------------------------------------
(* JSON parsing and the JokeFeedback schema *)

\* a key whose value is a nested object: the lexeme is followed by { ... }
NESTED == "meta:"

\* the members of an object from position i up to its closing brace: the
\* position of that brace, 0 when the text is no JSON
RECURSIVE ParseMembers(_, _)
ParseMembers(t, i) ==
    IF i > Len(t) THEN 0
    ELSE IF t[i] = "}" THEN i
    ELSE IF t[i] = WS \/ t[i] \in MemberLex THEN ParseMembers(t, i + 1)
    ELSE IF t[i] = NESTED /\ i + 1 <= Len(t) /\ t[i + 1] = "{"
         THEN LET e == ParseMembers(t, i + 2)
              IN  IF e = 0 THEN 0 ELSE ParseMembers(t, e + 1)
    ELSE 0

\* self.parser.parse / json.loads accept the text: it is one JSON object
IsJsonObject(c) ==
    LET s == strip(c)
    IN  s # <<>> /\ s[1] = "{" /\ ParseMembers(s, 2) = Len(s)

\* nesting depth of position i: open braces minus closed braces before it
RECURSIVE Depth(_, _)
Depth(t, i) ==
    IF i <= 1 THEN 0
    ELSE Depth(t, i - 1) + (IF t[i - 1] = "{" THEN 1 ELSE 0)
                         - (IF t[i - 1] = "}" THEN 1 ELSE 0)

\* positions of the top-level members of the object whose lexeme is in lex
MemberAt(s, lex) == {i \in 1..Len(s) : s[i] \in lex /\ Depth(s, i) = 1}

HasKey(s, lex) == MemberAt(s, lex) # {}

\* the value a parsed dict holds for a key: the last occurrence wins
Member(s, lex) ==
    LET ps == MemberAt(s, lex)
    IN  s[CHOOSE i \in ps : \A j \in ps : j <= i]

ScoreOf(x) == CASE x = "score:70" -> 70
                [] x = "score:85" -> 85
                [] OTHER -> 150

AgeOf(x) == IF x = "age:Teen" THEN "Teen" ELSE "Senior"

ListOf(x, item) == IF x \in {"strengths:1", "weaknesses:1", "suggestions:1"}
                   THEN <<item>> ELSE <<>>

\* slip: laughability_score is declared without ge and le, any integer passes
ValidFeedback_AnyScore(f) ==
    /\ f.age_appropriateness \in {"Child", "Teen", "Adult"}
    /\ Len(f.strengths) >= 1
    /\ Len(f.weaknesses) >= 1
    /\ Len(f.suggestions) >= 1

\* slip: the lists are declared without min_length, an empty list passes
ValidFeedback_EmptyLists(f) ==
    /\ f.laughability_score \in 0..100
    /\ f.age_appropriateness \in {"Child", "Teen", "Adult"}

\* slip: age_appropriateness is declared str, any rating passes
ValidFeedback_AnyAge(f) ==
    /\ f.laughability_score \in 0..100
    /\ Len(f.strengths) >= 1
    /\ Len(f.weaknesses) >= 1
    /\ Len(f.suggestions) >= 1

\* JokeFeedback: the constraints of the pydantic model
ValidFeedback(f) ==
    /\ f.laughability_score \in 0..100
    /\ f.age_appropriateness \in {"Child", "Teen", "Adult"}
    /\ Len(f.strengths) >= 1
    /\ Len(f.weaknesses) >= 1
    /\ Len(f.suggestions) >= 1

AllKeys(s) ==
    /\ HasKey(s, ScoreLex) /\ HasKey(s, AgeLex) /\ HasKey(s, StrengthsLex)
    /\ HasKey(s, WeaknessesLex) /\ HasKey(s, SuggestionsLex)
    /\ HasKey(s, VerdictLex)

\* feedback_dict of a text that parsed, all keys present
FeedbackDict(s) ==
    [laughability_score  |-> ScoreOf(Member(s, ScoreLex)),
     age_appropriateness |-> AgeOf(Member(s, AgeLex)),
     strengths           |-> ListOf(Member(s, StrengthsLex), "strength"),
     weaknesses          |-> ListOf(Member(s, WeaknessesLex), "weakness"),
     suggestions         |-> ListOf(Member(s, SuggestionsLex), "suggestion"),
     overall_verdict     |-> "ok"]

\* slip: the fallback scores the joke 0 instead of 50
FallbackFeedback_ZeroScore(verdict) ==
    [laughability_score  |-> 0,
     age_appropriateness |-> "Teen",
     strengths           |-> <<"Joke was generated">>,
     weaknesses          |-> <<"Could not properly evaluate due to format error">>,
     suggestions         |-> <<"Try using a different LLM provider or model">>,
     overall_verdict     |-> verdict]

\* slip: the fallback takes the verdict of a successful evaluation
FallbackFeedback_VerdictOk(verdict) ==
    [laughability_score  |-> 50,
     age_appropriateness |-> "Teen",
     strengths           |-> <<"Joke was generated">>,
     weaknesses          |-> <<"Could not properly evaluate due to format error">>,
     suggestions         |-> <<"Try using a different LLM provider or model">>,
     overall_verdict     |-> "ok"]

\* the record built in the except branch of evaluate_joke / reevaluate_joke
FallbackFeedback(verdict) ==
    [laughability_score  |-> 50,
     age_appropriateness |-> "Teen",
     strengths           |-> <<"Joke was generated">>,
     weaknesses          |-> <<"Could not properly evaluate due to format error">>,
     suggestions         |-> <<"Try using a different LLM provider or model">>,
     overall_verdict     |-> verdict]

EvalFallbackVerdict ==
    "Evaluation incomplete - please try re-evaluation or switch models"
ReevalFallbackVerdict ==
    "Re-evaluation incomplete - please try re-evaluation or switch models"

\* self.parser.parse(cleaned_content), with json.loads behind it: the text
\* of the object it returns, <<>> when it raises or returns no object.
\* LangChain's JsonOutputParser accepts what json.loads accepts and is
\* lenient beyond it: it drops blanks and backquotes at both ends, closes
\* the braces a truncated object left open, dropping from the end what
\* keeps the text from parsing, and when that fails looks again behind the
\* first markdown fence.  A closing brace with no opening one makes it
\* return None
parser_parse(cleaned) ==
    LET Trimmed(t) ==
            LET keep == {i \in 1..Len(t) : t[i] \notin {WS, FENCE}}
            IN  IF keep = {} THEN <<>>
                ELSE SubSeq(t, CHOOSE i \in keep : \A j \in keep : i <= j,
                               CHOOSE i \in keep : \A j \in keep : j <= i)
        Stray(t) == \E i \in 1..(Len(t) + 1) : Depth(t, i) < 0
        Closers(t) == [i \in 1..Depth(t, Len(t) + 1) |-> "}"]
        Longest(ts) ==
            IF ts = {} THEN <<>>
            ELSE CHOOSE t \in ts : \A r \in ts : Len(r) <= Len(t)
        Partial(t) ==
            IF Stray(t) THEN <<>>
            ELSE Longest({x \in {SubSeq(t, 1, k) \o Closers(t) : k \in 1..Len(t)} :
                             IsJsonObject(x)})
        FirstOf(a, b) == IF a # <<>> THEN a ELSE b
        fences == {i \in 1..Len(cleaned) : cleaned[i] \in {FENCE, FENCE_JSON}}
        behind == SubSeq(cleaned,
                         (CHOOSE i \in fences : \A j \in fences : i <= j) + 1,
                         Len(cleaned))
    IN  FirstOf(Partial(Trimmed(cleaned)),
                IF Stray(Trimmed(cleaned)) \/ fences = {} THEN <<>>
                ELSE Partial(Trimmed(behind)))

\* the try/except of evaluate_joke and reevaluate_joke applied to the
\* content of the LLM response
ParseFeedback(content, fallbackVerdict) ==
    LET Validated(s) ==
            IF s # <<>> /\ AllKeys(s) /\ ValidFeedback(FeedbackDict(s))
            THEN FeedbackDict(s)
            ELSE FallbackFeedback(fallbackVerdict)
    IN  Validated(parser_parse(extract_json_from_response(content)))

----------------------------------------------------------------------------
(* The language models: what llm.invoke can do *)

\* what the user can type in the topic box, the empty box included
Prompts == {"", "cats"}

\* the example buttons (clean_prompt, the label without its emoji)
ExamplePrompts == {"cats vs dogs"}

\* response.content of the Performer's model
PerformerContents == {<<WS>>, <<"a">>, <<WS, "b", WS>>}

FencedJson == <<FENCE_JSON, WS, "{", "score:85", "age:Teen", "strengths:1",
                "weaknesses:1", "suggestions:1", "verdict", "}", WS, FENCE>>
OutOfRangeJson == <<"{", "score:150", "age:Teen", "strengths:1",
                    "weaknesses:1", "suggestions:1", "verdict", "}">>
NotJson == <<PROSE, WS, PROSE>>

\* response.content of the Critic's model
CriticContents == {FencedJson, OutOfRangeJson, NotJson}

\* llm.invoke either raises (timeout, auth, rate limit) or returns a response
Raised == [raised |-> TRUE, content |-> <<>>]
Returned(c) == [raised |-> FALSE, content |-> c]

PerformerResponses == {Raised} \cup {Returned(c) : c \in PerformerContents}
CriticResponses == {Raised} \cup {Returned(c) : c \in CriticContents}

\* no feedback is part of the call (produce, evaluate, re-evaluate)
NoFeedback ==
    [laughability_score |-> -1, age_appropriateness |-> "", strengths |-> <<>>,
     weaknesses |-> <<>>, suggestions |-> <<>>, overall_verdict |-> ""]

\* one llm.invoke as the model sees it: who called, for what, with which
\* topic, joke and feedback in the messages, whether it raised and the
\* content it returned
Call(agent, op, topic, joke, feedback, r) ==
    [agent |-> agent, op |-> op, topic |-> topic, joke |-> joke,
     feedback |-> feedback, raised |-> r.raised, content |-> r.content]

\* PerformerAgent.generate_joke: the joke of a response that returned
generate_joke(p) == strip(p.content)

\* PerformerAgent.revise_joke: the revised joke of a response that returned
revise_joke(p) == strip(p.content)

\* what the Critic decodes from each content of its model; a response that
\* raised has no content to decode
Decoded(fallbackVerdict) ==
    [content \in CriticContents \cup {<<>>} |->
        ParseFeedback(content, fallbackVerdict)]

EvaluateDecoded == Decoded(EvalFallbackVerdict)

ReevaluateDecoded == Decoded(ReevalFallbackVerdict)

\* CriticAgent.evaluate_joke: the feedback of a response that returned
evaluate_joke(c) == EvaluateDecoded[c.content]

\* CriticAgent.reevaluate_joke: the feedback of a response that returned
reevaluate_joke(c) == ReevaluateDecoded[c.content]

\* slip: the critic node is an entry point of its own and runs whether or
\* not the performer node returned
run_CriticAfterFailure(prompt, p, c) ==
    LET gen == Call("performer", "generate", prompt, <<>>, NoFeedback, p)
        joke == generate_joke(p)
        ev == Call("critic", "evaluate", "", joke, NoFeedback, c)
        none == [joke |-> <<>>, feedback |-> NoFeedback]
    IN  IF prompt = ""
        THEN [status |-> "ValueError", result |-> none, calls |-> <<>>]
        ELSE IF p.raised \/ c.raised
        THEN [status |-> "Transport", result |-> none, calls |-> <<gen, ev>>]
        ELSE IF joke = <<>>
        THEN [status |-> "ValueError", result |-> none, calls |-> <<gen>>]
        ELSE [status |-> "ok",
              result |-> [joke |-> joke, feedback |-> evaluate_joke(c)],
              calls |-> <<gen, ev>>]

\* JokeWorkflow.run: the graph performer -> critic -> END on a prompt, with
\* the responses p and c of the two models.  status is "ok" or the error
\* that leaves graph.invoke
run(prompt, p, c) ==
    LET gen == Call("performer", "generate", prompt, <<>>, NoFeedback, p)
        joke == generate_joke(p)
        ev == Call("critic", "evaluate", "", joke, NoFeedback, c)
        none == [joke |-> <<>>, feedback |-> NoFeedback]
    IN  IF prompt = ""
        THEN [status |-> "ValueError", result |-> none, calls |-> <<>>]
        ELSE IF p.raised
        THEN [status |-> "Transport", result |-> none, calls |-> <<gen>>]
        ELSE IF joke = <<>>
        THEN [status |-> "ValueError", result |-> none, calls |-> <<gen>>]
        ELSE IF c.raised
        THEN [status |-> "Transport", result |-> none, calls |-> <<gen, ev>>]
        ELSE [status |-> "ok",
              result |-> [joke |-> joke, feedback |-> evaluate_joke(c)],
              calls |-> <<gen, ev>>]

----------------------------------------------------------------------------
(* The session: st.session_state and the handlers of src/app/main.py *)

\* an entry of st.session_state.history; previous_joke is <<>> for the
\* entries that are stored without that key
Cycle(joke, feedback, cycle_type, previous_joke) ==
    [joke |-> joke, feedback |-> feedback, cycle_type |-> cycle_type,
     previous_joke |-> previous_joke]

InitialCycle(result) == Cycle(result.joke, result.feedback, "initial", <<>>)

\* slip: the diff field receives the revised joke instead of the previous one
RevisedCycle_DiffOfRevised(latest_cycle, revised_joke, new_feedback) ==
    Cycle(revised_joke, new_feedback, "revised", revised_joke)

RevisedCycle(latest_cycle, revised_joke, new_feedback) ==
    Cycle(revised_joke, new_feedback, "revised", latest_cycle.joke)


\* slip: the entry is labelled as the revision handler labels its own
ReevaluatedCycle_KindRevised(latest_cycle, new_feedback) ==
    Cycle(latest_cycle.joke, new_feedback, "revised", <<>>)

\* slip: the entry takes the joke of the cycle before the latest one
ReevaluatedCycle_PreviousJoke(latest_cycle, new_feedback) ==
    Cycle(latest_cycle.previous_joke, new_feedback, "reevaluated", <<>>)

ReevaluatedCycle(latest_cycle, new_feedback) ==
    Cycle(latest_cycle.joke, new_feedback, "reevaluated", <<>>)

\* slip: the test is "history is None", which a list never is
NoHistory_IsNone(h) == FALSE

\* not st.session_state.history
NoHistory(h) == h = <<>>

\* slip: the test is "prompt is None", which the text box never returns
EmptyPrompt_IsNone(prompt) == FALSE

\* not prompt
EmptyPrompt(prompt) == prompt = ""

\* slip: the buttons are rendered whatever the flag says
ActionsShown_Always(complete) == TRUE

\* the action buttons are rendered: not st.session_state.workflow_complete
ActionsShown(complete) == ~complete

\* slip: the history is not reset for the new joke
ClearedHistory_Kept(h) == h

\* st.session_state.history = [] before a new joke is generated
ClearedHistory(h) == <<>>

\* slip: history.insert(0, cycle)
AppendCycle_AtFront(h, cycle) == <<cycle>> \o h

\* st.session_state.history.append(cycle)
AppendCycle(h, cycle) == Append(h, cycle)

\* what the user is told and what the run did: the action taken, how it
\* ended, and the llm.invoke calls it made, in order
Told(action, prompt, how, made) ==
    /\ lastAction' = action
    /\ lastPrompt' = prompt
    /\ before' = [len |-> Len(history), complete |-> workflow_complete]
    /\ outcome' = how
    /\ calls' = made

\* a script run that handles its click from start to end.  It reads and
\* writes the st.session_state of its own session and nothing else, and
\* no handler of the refinement loop touches the stored audio
Report(action, prompt, how, made) ==
    /\ Told(action, prompt, how, made)
    /\ UNCHANGED <<other, current, decoding, cycle_audio, pending>>

\* initialize_session_state: the st.session_state of a new session
NewSession == [history |-> <<>>, workflow_complete |-> FALSE, workflow |-> "None"]

\* no response is under decoding
NotDecoding ==
    [text |-> <<>>, by |-> "none", cleaned_content |-> <<>>,
     feedback |-> NoFeedback]

\* st.session_state has no "cycle_audio" key, or an empty dict under it.
\* The dict is the set of its items
NoAudio == {}

\* no script run is under way
NoPending ==
    [action |-> "none", prompt |-> "n/a", history |-> <<>>,
     workflow_complete |-> FALSE, workflow |-> "None"]

\* a browser session opens the application
OneSession ==
    /\ history = NewSession.history
    /\ workflow_complete = NewSession.workflow_complete
    /\ workflow = NewSession.workflow
    /\ lastAction = "none"
    /\ lastPrompt = "n/a"
    /\ before = [len |-> 0, complete |-> FALSE]
    /\ outcome = "none"
    /\ calls = <<>>
    /\ other = NewSession
    /\ current = "A"
    /\ cycle_audio = NoAudio
    /\ pending = NoPending

Init == OneSession /\ decoding = NotDecoding


\* slip: the append was left out of the try block
StoreOnSuccess_Never(h, status, cycle) == h

\* slip: the append sits in a finally clause and runs after a failure too
StoreOnSuccess_Always(h, status, cycle) == Append(h, cycle)

\* the append at the end of a try block is reached only when nothing in
\* the block raised; the except branch only displays the error
StoreOnSuccess(h, status, cycle) ==
    IF status = "ok" THEN AppendCycle(h, cycle) ELSE h


\* slip: the workflow is built and run but not kept in st.session_state
generate_new_joke_WorkflowNotStored(prompt, llms_ok, p, c) ==
    LET r == run(prompt, p, c)
    IN  /\ workflow_complete' = FALSE
        /\ UNCHANGED workflow
        /\ IF ~llms_ok
           THEN /\ history' = ClearedHistory(history)
                /\ Report("submit", prompt, "ValueError", <<>>)
           ELSE /\ history' = StoreOnSuccess(ClearedHistory(history), r.status,
                                             InitialCycle(r.result))
                /\ Report("submit", prompt, r.status, r.calls)

\* main, the else branch of "if not prompt" (and the same lines under an
\* example button): reset, build the workflow, run it, store the cycle.
\* llms_ok is whether get_performer_llm and get_critic_llm returned
generate_new_joke(prompt, llms_ok, p, c) ==
    LET r == run(prompt, p, c)
    IN  /\ workflow_complete' = FALSE
        /\ IF ~llms_ok
           THEN /\ history' = ClearedHistory(history)
                /\ UNCHANGED workflow
                /\ Report("submit", prompt, "ValueError", <<>>)
           ELSE /\ workflow' = "JokeWorkflow"
                /\ history' = StoreOnSuccess(ClearedHistory(history), r.status,
                                             InitialCycle(r.result))
                /\ Report("submit", prompt, r.status, r.calls)

\* main: the Generate button
GenerateButton ==
    \E prompt \in Prompts, llms_ok \in BOOLEAN,
       p \in PerformerResponses, c \in CriticResponses :
        IF EmptyPrompt(prompt)
        THEN /\ UNCHANGED <<history, workflow_complete, workflow>>
             /\ Report("submit", prompt, "InvalidInput", <<>>)
        ELSE generate_new_joke(prompt, llms_ok, p, c)

\* main: an example button, rendered while there is no history
ExampleButton ==
    /\ NoHistory(history)
    /\ \E prompt \in ExamplePrompts, llms_ok \in BOOLEAN,
          p \in PerformerResponses, c \in CriticResponses :
           generate_new_joke(prompt, llms_ok, p, c)


\* slip: the handler has no "if not revised_joke" test
refine_NoEmptyTest(latest_cycle, p, c) ==
    LET gen == Call("performer", "revise", "", latest_cycle.joke,
                    latest_cycle.feedback, p)
        revised_joke == revise_joke(p)
        ev == Call("critic", "evaluate", "", revised_joke, NoFeedback, c)
        cycle == RevisedCycle(latest_cycle, revised_joke, evaluate_joke(c))
    IN  IF workflow = "None"
        THEN [status |-> "ValueError", calls |-> <<>>, cycle |-> cycle]
        ELSE IF p.raised
        THEN [status |-> "Transport", calls |-> <<gen>>, cycle |-> cycle]
        ELSE IF c.raised
        THEN [status |-> "Transport", calls |-> <<gen, ev>>, cycle |-> cycle]
        ELSE [status |-> "ok", calls |-> <<gen, ev>>, cycle |-> cycle]

\* slip: the evaluation is asked for latest_cycle["joke"], not revised_joke
refine_EvaluatesLatest(latest_cycle, p, c) ==
    LET gen == Call("performer", "revise", "", latest_cycle.joke,
                    latest_cycle.feedback, p)
        revised_joke == revise_joke(p)
        ev == Call("critic", "evaluate", "", latest_cycle.joke, NoFeedback, c)
        cycle == RevisedCycle(latest_cycle, revised_joke, evaluate_joke(c))
    IN  IF workflow = "None"
        THEN [status |-> "ValueError", calls |-> <<>>, cycle |-> cycle]
        ELSE IF p.raised
        THEN [status |-> "Transport", calls |-> <<gen>>, cycle |-> cycle]
        ELSE IF revised_joke = <<>>
        THEN [status |-> "ValueError", calls |-> <<gen>>, cycle |-> cycle]
        ELSE IF c.raised
        THEN [status |-> "Transport", calls |-> <<gen, ev>>, cycle |-> cycle]
        ELSE [status |-> "ok", calls |-> <<gen, ev>>, cycle |-> cycle]

\* the try block of handle_refine_action on the latest cycle, with the
\* responses p and c of the two models: how it ends, the calls it makes
\* and the cycle it appends when nothing raises
refine(latest_cycle, p, c) ==
    LET gen == Call("performer", "revise", "", latest_cycle.joke,
                    latest_cycle.feedback, p)
        revised_joke == revise_joke(p)
        ev == Call("critic", "evaluate", "", revised_joke, NoFeedback, c)
        cycle == RevisedCycle(latest_cycle, revised_joke, evaluate_joke(c))
    IN  IF workflow = "None"
        THEN [status |-> "ValueError", calls |-> <<>>, cycle |-> cycle]
        ELSE IF p.raised
        THEN [status |-> "Transport", calls |-> <<gen>>, cycle |-> cycle]
        ELSE IF revised_joke = <<>>
        THEN [status |-> "ValueError", calls |-> <<gen>>, cycle |-> cycle]
        ELSE IF c.raised
        THEN [status |-> "Transport", calls |-> <<gen, ev>>, cycle |-> cycle]
        ELSE [status |-> "ok", calls |-> <<gen, ev>>, cycle |-> cycle]


\* slip: the handler reads history[0], the first cycle, not history[-1]
handle_refine_action_FirstCycle(p, c) ==
    IF NoHistory(history)
    THEN /\ UNCHANGED <<history, workflow_complete, workflow>>
         /\ Report("revise", "n/a", "NoHistory", <<>>)
    ELSE LET r == refine(history[1], p, c)
         IN  /\ r.status = "ok" => Len(history) < MaxHistory
             /\ history' = StoreOnSuccess(history, r.status, r.cycle)
             /\ UNCHANGED <<workflow_complete, workflow>>
             /\ Report("revise", "n/a", r.status, r.calls)

\* handle_refine_action
handle_refine_action(p, c) ==
    IF NoHistory(history)
    THEN /\ UNCHANGED <<history, workflow_complete, workflow>>
         /\ Report("revise", "n/a", "NoHistory", <<>>)
    ELSE IF Len(history) = 0
    THEN \* history[-1] of an empty list
         /\ UNCHANGED <<history, workflow_complete, workflow>>
         /\ Report("revise", "n/a", "IndexError", <<>>)
    ELSE LET r == refine(history[Len(history)], p, c)
         IN  /\ r.status = "ok" => Len(history) < MaxHistory
             /\ history' = StoreOnSuccess(history, r.status, r.cycle)
             /\ UNCHANGED <<workflow_complete, workflow>>
             /\ Report("revise", "n/a", r.status, r.calls)

\* the try block of handle_reevaluate_action on the latest cycle, with the
\* response c of the Critic's model
reevaluate(latest_cycle, c) ==
    LET ev == Call("critic", "reevaluate", "", latest_cycle.joke, NoFeedback, c)
        cycle == ReevaluatedCycle(latest_cycle, reevaluate_joke(c))
    IN  IF workflow = "None"
        THEN [status |-> "ValueError", calls |-> <<>>, cycle |-> cycle]
        ELSE IF c.raised
        THEN [status |-> "Transport", calls |-> <<ev>>, cycle |-> cycle]
        ELSE [status |-> "ok", calls |-> <<ev>>, cycle |-> cycle]

\* handle_reevaluate_action
handle_reevaluate_action(c) ==
    IF NoHistory(history)
    THEN /\ UNCHANGED <<history, workflow_complete, workflow>>
         /\ Report("reevaluate", "n/a", "NoHistory", <<>>)
    ELSE IF Len(history) = 0
    THEN \* history[-1] of an empty list
         /\ UNCHANGED <<history, workflow_complete, workflow>>
         /\ Report("reevaluate", "n/a", "IndexError", <<>>)
    ELSE LET r == reevaluate(history[Len(history)], c)
         IN  /\ r.status = "ok" => Len(history) < MaxHistory
             /\ history' = StoreOnSuccess(history, r.status, r.cycle)
             /\ UNCHANGED <<workflow_complete, workflow>>
             /\ Report("reevaluate", "n/a", r.status, r.calls)

\* slip: the handler also drops the stored workflow, as Start Over does
handle_complete_action_DropsWorkflow ==
    /\ workflow_complete' = TRUE
    /\ workflow' = "None"
    /\ UNCHANGED history
    /\ Report("complete", "n/a", "ok", <<>>)

\* handle_complete_action
handle_complete_action ==
    /\ workflow_complete' = TRUE
    /\ UNCHANGED <<history, workflow>>
    /\ Report("complete", "n/a", "ok", <<>>)

\* a click on an action button reaches no handler: main renders the cycles
\* only of a history that is not empty, and display_evaluation_with_actions
\* renders the buttons only while the workflow is not complete
NotRendered(action) ==
    /\ UNCHANGED <<history, workflow_complete, workflow>>
    /\ Report(action, "n/a", IF NoHistory(history) THEN "NoHistory"
                      ELSE "SessionComplete", <<>>)

Rendered == ~NoHistory(history) /\ ActionsShown(workflow_complete)

\* display_evaluation_with_actions: the Revise Joke button
ReviseButton ==
    IF Rendered
    THEN \E p \in PerformerResponses, c \in CriticResponses :
            handle_refine_action(p, c)
    ELSE NotRendered("revise")

\* display_evaluation_with_actions: the Re-Evaluate button
ReevaluateButton ==
    IF Rendered
    THEN \E c \in CriticResponses : handle_reevaluate_action(c)
    ELSE NotRendered("reevaluate")

\* display_evaluation_with_actions: the I'm All Set button
CompleteButton ==
    IF Rendered
    THEN handle_complete_action
    ELSE NotRendered("complete")


\* slip: the reset forgets st.session_state.workflow = None
StartOverButton_KeepsWorkflow ==
    /\ ~NoHistory(history)
    /\ history' = <<>>
    /\ workflow_complete' = FALSE
    /\ UNCHANGED workflow
    /\ Report("reset", "n/a", "ok", <<>>)

\* slip: the reset forgets st.session_state.workflow_complete = False
StartOverButton_KeepsFlag ==
    /\ ~NoHistory(history)
    /\ history' = <<>>
    /\ UNCHANGED workflow_complete
    /\ workflow' = "None"
    /\ Report("reset", "n/a", "ok", <<>>)

\* slip: the history and the flag are module-level globals that every
\* session of the server process shares, so a reset clears them for all
StartOverButton_AllSessions ==
    /\ ~NoHistory(history)
    /\ history' = <<>>
    /\ workflow_complete' = FALSE
    /\ workflow' = "None"
    /\ other' = NewSession
    /\ lastAction' = "reset"
    /\ lastPrompt' = "n/a"
    /\ before' = [len |-> Len(history), complete |-> workflow_complete]
    /\ outcome' = "ok"
    /\ calls' = <<>>
    /\ UNCHANGED <<current, decoding, cycle_audio, pending>>

\* main: the Start Over button, rendered under the history
StartOverButton ==
    /\ ~NoHistory(history)
    /\ history' = <<>>
    /\ workflow_complete' = FALSE
    /\ workflow' = "None"
    /\ Report("reset", "n/a", "ok", <<>>)

Next ==
    \/ GenerateButton
    \/ ExampleButton
    \/ ReviseButton
    \/ ReevaluateButton
    \/ CompleteButton
    \/ StartOverButton

Spec == Init /\ [][Next]_vars

----------------------------------------------------------------------------
(* Two browser sessions on one server: each script run belongs to one of
   them and sees its own st.session_state *)

\* what the models return while two sessions run
SessionsPerformerResponses == {Raised, Returned(<<"a">>), Returned(<<"b">>)}
SessionsCriticResponses == {Returned(NotJson)}

\* the Generate button of the current session
SessionsGenerateButton ==
    \E p \in SessionsPerformerResponses, c \in SessionsCriticResponses :
        generate_new_joke("cats", TRUE, p, c)

\* the Revise Joke button of the current session
SessionsReviseButton ==
    /\ Rendered
    /\ Len(history) < MaxSessionsHistory
    /\ \E p \in SessionsPerformerResponses, c \in SessionsCriticResponses :
           handle_refine_action(p, c)

\* the Re-Evaluate button of the current session
SessionsReevaluateButton ==
    /\ Rendered
    /\ Len(history) < MaxSessionsHistory
    /\ \E c \in SessionsCriticResponses : handle_reevaluate_action(c)

\* the next script run belongs to the other session: Streamlit hands it
\* that session's st.session_state, and keeps this one's for later
OtherSessionRuns ==
    /\ history' = other.history
    /\ workflow_complete' = other.workflow_complete
    /\ workflow' = other.workflow
    /\ other' = [history |-> history, workflow_complete |-> workflow_complete,
                 workflow |-> workflow]
    /\ current' = IF current = "A" THEN "B" ELSE "A"
    /\ lastAction' = "none"
    /\ lastPrompt' = "n/a"
    /\ before' = [len |-> Len(other.history),
                  complete |-> other.workflow_complete]
    /\ outcome' = "none"
    /\ calls' = <<>>
    /\ UNCHANGED <<decoding, cycle_audio, pending>>

NextSessions ==
    \/ SessionsGenerateButton
    \/ SessionsReviseButton
    \/ SessionsReevaluateButton
    \/ CompleteButton
    \/ StartOverButton
    \/ OtherSessionRuns

SpecSessions == Init /\ [][NextSessions]_vars

----------------------------------------------------------------------------
(* The Critic's decoder on its own: any text its model can return *)

\* the lexemes of the free texts
TextLexemes == {"{", "}", PROSE, FENCE_JSON, NESTED, "score:70"}

\* every text of at most MaxText lexemes, the empty text included
FreeTexts == UNION {[1..n -> TextLexemes] : n \in 0..MaxText}

\* an object with every field of JokeFeedback, each within its constraints
ValidObject(score) ==
    <<"{", score, "age:Teen", "strengths:1", "weaknesses:1", "suggestions:1",
      "verdict", "}">>

\* the same with one more key that holds an object
NestedObject ==
    <<"{", "score:70", "age:Teen", "strengths:1", "weaknesses:1",
      "suggestions:1", "verdict", NESTED, "{", "}", "}">>

\* the same with one more key that holds an object in an object
DeepObject ==
    <<"{", "score:70", "age:Teen", "strengths:1", "weaknesses:1",
      "suggestions:1", "verdict", NESTED, "{", NESTED, "{", "}", "}", "}">>

\* the objects that JokeFeedback(**feedback_dict) accepts
SchemaObjects ==
    {ValidObject("score:70"), ValidObject("score:85"), NestedObject, DeepObject}

\* what a model writes before its JSON, and after it
LeadingProse == {<<>>, <<PROSE, WS>>, <<PROSE, WS, "{", PROSE, "}", WS>>}
TrailingProse == {<<>>, <<WS, PROSE>>}

\* a response that wraps an object in prose and a markdown code block
Wrapped(pre, open, object, close, post) ==
    pre \o (IF open THEN <<FENCE_JSON, WS>> ELSE <<>>) \o object
        \o (IF close THEN <<WS, FENCE>> ELSE <<>>) \o post

WrappedTexts ==
    {Wrapped(pre, open, object, close, post) :
        pre \in LeadingProse, open \in BOOLEAN, object \in SchemaObjects,
        close \in BOOLEAN, post \in TrailingProse}

\* objects that JokeFeedback(**feedback_dict) rejects for one field
SeniorObject ==
    <<"{", "score:85", "age:Senior", "strengths:1", "weaknesses:1",
      "suggestions:1", "verdict", "}">>
EmptyStrengthsObject ==
    <<"{", "score:85", "age:Teen", "strengths:0", "weaknesses:1",
      "suggestions:1", "verdict", "}">>
MissingWeaknessesObject ==
    <<"{", "score:85", "age:Teen", "strengths:1", "suggestions:1",
      "verdict", "}">>

InvalidFieldObjects ==
    {SeniorObject, EmptyStrengthsObject, MissingWeaknessesObject}

\* an object with every field whose closing brace was cut off
TruncatedObject ==
    <<"{", "score:70", "age:Teen", "strengths:1", "weaknesses:1",
      "suggestions:1", "verdict">>

\* an object in an object in an object, and no field of JokeFeedback
DeepOnly == <<"{", NESTED, "{", NESTED, "{", "}", "}", "}">>

\* response.content of the Critic's model, any of them
DecoderTexts ==
    FreeTexts \cup WrappedTexts \cup InvalidFieldObjects \cup CriticContents
        \cup {TruncatedObject, DeepOnly}

\* a response has returned and neither method has decoded it yet
InitDecoder ==
    /\ OneSession
    /\ \E content \in DecoderTexts :
           decoding = [NotDecoding EXCEPT !.text = content]

\* the try/except of a method of the Critic on a response: the text it
\* cleans and the feedback it returns
Decode(content, method, fallbackVerdict) ==
    [text |-> content, by |-> method,
     cleaned_content |-> extract_json_from_response(content),
     feedback |-> ParseFeedback(content, fallbackVerdict)]

\* CriticAgent.evaluate_joke decodes the response
DecodeEvaluate ==
    /\ decoding.by = "none"
    /\ decoding' = Decode(decoding.text, "evaluate", EvalFallbackVerdict)
    /\ UNCHANGED <<history, workflow_complete, workflow, lastAction,
                   lastPrompt, before, outcome, calls, other, current,
                   cycle_audio, pending>>

\* CriticAgent.reevaluate_joke decodes the response
DecodeReevaluate ==
    /\ decoding.by = "none"
    /\ decoding' = Decode(decoding.text, "reevaluate", ReevalFallbackVerdict)
    /\ UNCHANGED <<history, workflow_complete, workflow, lastAction,
                   lastPrompt, before, outcome, calls, other, current,
                   cycle_audio, pending>>

NextDecoder == DecodeEvaluate \/ DecodeReevaluate

SpecDecoder == InitDecoder /\ [][NextDecoder]_vars

----------------------------------------------------------------------------
(* Properties *)

IsPrefix(s, t) == Len(s) <= Len(t) /\ SubSeq(t, 1, Len(s)) = s

Last(s) == s[Len(s)]

\* an llm.invoke of the last run raised
SomeCallRaised == \E i \in 1..Len(calls) : calls[i].raised

\* C1: when the Generator or the Evaluator call of revise() fails, or the
\* Evaluator call of reevaluate() fails, no Cycle is appended: the history
\* and the terminated flag are what they were, the error is reported, and
\* the failed action worked on the Cycle that is still the last one, so a
\* retry starts from the same artifact and feedback.
C1_FailedRefinementLeavesHistory ==
    [][ (lastAction' \in {"revise", "reevaluate"} /\ SomeCallRaised')
        => /\ history' = history
           /\ workflow_complete' = workflow_complete
           /\ outcome' = "Transport"
           /\ calls'[1].joke = Last(history').joke
           /\ lastAction' = "revise"
                => calls'[1].feedback = Last(history').feedback ]_vars

\* a revise() whose Evaluator call failed after the Generator returned, on a
\* history of two Cycles that is still there
C1_Witness ==
    /\ lastAction = "revise" /\ outcome = "Transport"
    /\ Len(calls) = 2 /\ calls[2].raised /\ ~calls[1].raised
    /\ Len(history) = 2 /\ before.len = 2

\* C2: when the Generator or the Evaluator call fails during a submit issued
\* while the session is Active or Terminated, every Cycle that was in the
\* history is still there and the terminated flag keeps its value.
C2_FailedSubmitLeavesHistory ==
    [][ (lastAction' = "submit" /\ SomeCallRaised' /\ history # <<>>)
        => /\ history' = history
           /\ workflow_complete' = workflow_complete ]_vars

\* C3: the history is append-only: revise(), reevaluate() and complete()
\* keep the history they found as a prefix, a successful revise() or
\* reevaluate() adds exactly one Cycle at the end and anything else adds
\* none; only a submit or a reset replaces the history.
C3_AppendOnly ==
    [][ /\ lastAction' \in {"revise", "reevaluate", "complete"}
           => /\ IsPrefix(history, history')
              /\ Len(history') =
                    IF lastAction' \in {"revise", "reevaluate"} /\ outcome' = "ok"
                    THEN Len(history) + 1 ELSE Len(history)
        /\ ~IsPrefix(history, history')
           => lastAction' \in {"submit", "reset"} ]_vars

\* a third Cycle appended by reevaluate() behind a revised one
C3_Witness ==
    /\ lastAction = "reevaluate" /\ outcome = "ok"
    /\ Len(history) = 3 /\ before.len = 2
    /\ history[2].cycle_type = "revised"
    /\ history[3].cycle_type = "reevaluated"

\* C4: revise() and reevaluate() on an empty history are rejected for want
\* of a history: no llm.invoke is made and the history stays empty.
C4_NoHistoryRejected ==
    [][ (lastAction' \in {"revise", "reevaluate"} /\ history = <<>>)
        => /\ outcome' = "NoHistory"
           /\ calls' = <<>>
           /\ history' = <<>> ]_vars

\* reevaluate() rejected on the empty history a reset left behind
C4_Witness ==
    /\ lastAction = "reevaluate" /\ outcome = "NoHistory"
    /\ history = <<>> /\ before.len = 0 /\ workflow = "None"

\* C5: once the session is Terminated, revise() and reevaluate() are
\* rejected: they make no llm.invoke and change neither the history nor the
\* flag; a submit that is accepted sets terminated back to false.
C5_TerminatedRejects ==
    [][ /\ (lastAction' \in {"revise", "reevaluate"} /\ workflow_complete)
           => /\ outcome' = "SessionComplete"
              /\ calls' = <<>>
              /\ history' = history
              /\ workflow_complete'
        /\ (lastAction' = "submit" /\ outcome' # "InvalidInput")
           => ~workflow_complete' ]_vars

\* revise() rejected in a Terminated session that holds two Cycles
C5_Witness ==
    /\ lastAction = "revise" /\ outcome = "SessionComplete"
    /\ workflow_complete /\ before.complete /\ Len(history) = 2

\* the last run was a submit with a topic whose two llm.invoke calls returned
SubmitCallsReturned ==
    /\ lastAction = "submit" /\ lastPrompt # ""
    /\ Len(calls) = 2 /\ ~SomeCallRaised

\* C6: for every non-empty topic and from every state, a submit whose
\* Generator and Evaluator calls both return leaves a history of exactly one
\* Cycle, of kind initial, holding the Generator's trimmed output and a
\* feedback whose score is within 0..100, with terminated false.
C6_SubmitYieldsOneInitialCycle ==
    [][ SubmitCallsReturned'
        => /\ outcome' = "ok"
           /\ Len(history') = 1
           /\ history'[1].cycle_type = "initial"
           /\ history'[1].joke = strip(calls'[1].content)
           /\ history'[1].feedback.laughability_score \in 0..100
           /\ ~workflow_complete' ]_vars

\* a submit that succeeded in a Terminated session of three Cycles, with an
\* Evaluator that scored out of range
C6_Witness ==
    /\ SubmitCallsReturned /\ outcome = "ok"
    /\ before.len = 3 /\ before.complete
    /\ Len(history) = 1 /\ calls[2].content = OutOfRangeJson

ReevaluatedAt(i) == history[i].cycle_type = "reevaluated"

RevisedAt(i) == history[i].cycle_type = "revised"

\* C7: every reevaluated Cycle has the artifact of the Cycle before it; a
\* successful reevaluate() appends exactly one such Cycle, whose feedback is
\* the one decoded from the Evaluator's response.
C7_ReevaluatedKeepsArtifact ==
    /\ [](\A i \in 1..Len(history) :
            ReevaluatedAt(i) => i > 1 /\ history[i].joke = history[i - 1].joke)
    /\ [][ (lastAction' = "reevaluate" /\ outcome' = "ok")
           => /\ Len(history') = Len(history) + 1
              /\ IsPrefix(history, history')
              /\ Last(history').cycle_type = "reevaluated"
              /\ Last(history').joke = Last(history).joke
              /\ Last(history').feedback = reevaluate_joke(calls'[1]) ]_vars

\* a reevaluated Cycle behind a revised one whose artifact differs from the
\* first Cycle's, with a feedback that differs from the revised Cycle's
C7_Witness ==
    /\ lastAction = "reevaluate" /\ outcome = "ok" /\ Len(history) = 3
    /\ RevisedAt(2) /\ history[2].joke # history[1].joke
    /\ ReevaluatedAt(3) /\ history[3].feedback # history[2].feedback

\* C8: every revised Cycle has an artifact that differs from the artifact of
\* the Cycle before it.
C8_RevisedDiffers ==
    \A i \in 2..Len(history) :
        RevisedAt(i) => history[i].joke # history[i - 1].joke

\* C8, as the code has it: every revised Cycle holds the non-empty trimmed
\* text the Generator returned when given the artifact and the feedback of
\* the Cycle before it, and records that Cycle's artifact as previous_joke;
\* nothing compares the two artifacts.
C8_RevisedIsGeneratorOutput ==
    /\ [](\A i \in 1..Len(history) :
            RevisedAt(i) => /\ i > 1
                            /\ history[i].joke # <<>>
                            /\ history[i].previous_joke = history[i - 1].joke)
    /\ [][ (lastAction' = "revise" /\ outcome' = "ok")
           => /\ Last(history').cycle_type = "revised"
              /\ Last(history').joke = strip(calls'[1].content)
              /\ calls'[1].joke = Last(history).joke
              /\ calls'[1].feedback = Last(history).feedback ]_vars

\* a revised Cycle whose artifact differs from the one it revises
C8_Witness ==
    /\ lastAction = "revise" /\ outcome = "ok" /\ Len(history) = 2
    /\ RevisedAt(2) /\ history[2].joke # history[1].joke

\* C9: a submit with an empty topic is rejected as invalid input in every
\* state, before any llm.invoke: the history, the terminated flag and the
\* stored workflow are what they were.
C9_EmptyTopicRejected ==
    [][ (lastAction' = "submit" /\ lastPrompt' = "")
        => /\ outcome' = "InvalidInput"
           /\ calls' = <<>>
           /\ history' = history
           /\ workflow_complete' = workflow_complete
           /\ workflow' = workflow ]_vars

\* an empty topic rejected in a Terminated session that keeps its two Cycles
C9_Witness ==
    /\ lastAction = "submit" /\ lastPrompt = "" /\ outcome = "InvalidInput"
    /\ Len(history) = 2 /\ before.len = 2 /\ workflow_complete

\* C10: complete() in the Active state sets terminated to true and changes
\* nothing else: the history and the stored workflow are what they were and
\* no llm.invoke is made.
C10_CompleteOnlySetsFlag ==
    [][ (lastAction' = "complete" /\ history # <<>> /\ ~workflow_complete)
        => /\ workflow_complete'
           /\ outcome' = "ok"
           /\ history' = history
           /\ workflow' = workflow
           /\ calls' = <<>> ]_vars

\* complete() performed on an Active session of three Cycles
C10_Witness ==
    /\ lastAction = "complete" /\ outcome = "ok"
    /\ workflow_complete /\ ~before.complete
    /\ Len(history) = 3 /\ before.len = 3

----------------------------------------------------------------------------
(* Properties of the decoder *)

Range(t) == {t[i] : i \in 1..Len(t)}

\* the invariants of the Feedback schema
FullyPopulated(f) ==
    /\ f.laughability_score \in 0..100
    /\ f.age_appropriateness \in {"Child", "Teen", "Adult"}
    /\ f.strengths # <<>> /\ f.weaknesses # <<>> /\ f.suggestions # <<>>
    /\ "overall_verdict" \in DOMAIN f

\* C11: the decoder is total: whatever text the Evaluator's model returned
\* (the empty text, truncated JSON and prose without braces included), the
\* Feedback that evaluate and re-evaluate return for it satisfies every
\* invariant of the schema.
C11_DecoderTotal ==
    decoding.by \in {"evaluate", "reevaluate"}
        => FullyPopulated(decoding.feedback)

\* re-evaluate has decoded an object that was cut off after its first field
C11_Witness ==
    /\ decoding.text = <<"{", "score:70">>
    /\ decoding.by = "reevaluate"
    /\ decoding.feedback.laughability_score = 50

\* a method of the Critic has decoded the response
HasDecoded == decoding.by \in {"evaluate", "reevaluate"}

\* the field values an object of the schema states
FieldValues(object) ==
    [laughability_score  |-> IF "score:70" \in Range(object) THEN 70 ELSE 85,
     age_appropriateness |-> "Teen",
     strengths           |-> <<"strength">>,
     weaknesses          |-> <<"weakness">>,
     suggestions         |-> <<"suggestion">>,
     overall_verdict     |-> "ok"]

\* C13: decoder round trip: for every well-formed object that satisfies the
\* Feedback schema, decoding the text made of optional leading prose, an
\* optional markdown fence, the object, the closing fence and optional
\* trailing prose returns exactly the field values of the object.
C13_RoundTrip ==
    HasDecoded =>
        \A pre \in LeadingProse, fenced \in BOOLEAN, object \in SchemaObjects,
           post \in TrailingProse :
            decoding.text = Wrapped(pre, fenced, object, fenced, post)
                => decoding.feedback = FieldValues(object)

\* the fixed fallback Feedback: score 50, rating Teen, one placeholder in
\* each list and a verdict that says incomplete
FixedFallback(f) ==
    /\ f.laughability_score = 50
    /\ f.age_appropriateness = "Teen"
    /\ f.strengths = <<"Joke was generated">>
    /\ f.weaknesses = <<"Could not properly evaluate due to format error">>
    /\ f.suggestions = <<"Try using a different LLM provider or model">>
    /\ f.overall_verdict \in
          {"Evaluation incomplete - please try re-evaluation or switch models",
           "Re-evaluation incomplete - please try re-evaluation or switch models"}

\* C14: when the Evaluator's text holds no parseable object (prose only,
\* the empty text, braces that enclose no JSON), evaluate and re-evaluate
\* both return the fixed fallback Feedback: score 50, rating Teen, one
\* placeholder entry in each of strengths, weaknesses and suggestions, and
\* a verdict that contains "incomplete".
C14_FixedFallback ==
    (HasDecoded /\ parser_parse(decoding.cleaned_content) = <<>>)
        => FixedFallback(decoding.feedback)

\* evaluate has decoded a text of prose only
C14_Witness ==
    /\ decoding.by = "evaluate"
    /\ decoding.text = <<PROSE, WS, PROSE>>
    /\ decoding.feedback.overall_verdict =
          "Evaluation incomplete - please try re-evaluation or switch models"

\* C17 as stated: validation defaults field by field: a rating outside the
\* closed set becomes Teen and the score, lists and verdict of the payload
\* are kept; a list that is missing or empty becomes a one-element
\* placeholder list and the other fields of the payload are kept.
C17_FieldByFieldDefaults ==
    HasDecoded =>
        /\ decoding.text = SeniorObject
              => /\ decoding.feedback.age_appropriateness = "Teen"
                 /\ decoding.feedback.laughability_score = 85
                 /\ decoding.feedback.weaknesses = <<"weakness">>
                 /\ decoding.feedback.overall_verdict = "ok"
        /\ decoding.text \in {EmptyStrengthsObject, MissingWeaknessesObject}
              => /\ Len(decoding.feedback.strengths) = 1
                 /\ Len(decoding.feedback.weaknesses) = 1
                 /\ decoding.feedback.laughability_score = 85
                 /\ decoding.feedback.suggestions = <<"suggestion">>
                 /\ decoding.feedback.overall_verdict = "ok"

\* C17: validation is all or nothing: when the parsed payload has a rating
\* outside the closed set, or a list field that is missing or empty, the
\* whole fixed fallback Feedback is returned, so the rating is Teen and the
\* list a one-element placeholder, and no field of the payload is kept:
\* the score is 50 whatever the payload scored.
C17_WholeRecordFallback ==
    (HasDecoded /\ decoding.text \in InvalidFieldObjects)
        => /\ FixedFallback(decoding.feedback)
           /\ decoding.feedback.laughability_score # 85

\* re-evaluate has decoded a payload that scores 85 for the rating Senior
C17_Witness ==
    /\ decoding.by = "reevaluate"
    /\ decoding.text = SeniorObject
    /\ decoding.feedback.laughability_score = 50
    /\ decoding.feedback.age_appropriateness = "Teen"

\* the position of the brace that closes the one at position i, by brace
\* matching; 0 when none does
ClosingBrace(t, i) ==
    LET js == {j \in (i + 1)..Len(t) :
                  t[j] = "}" /\ Depth(t, j + 1) = Depth(t, i)}
    IN  IF js = {} THEN 0 ELSE CHOOSE j \in js : \A k \in js : j <= k

\* the text's first opening brace opens a balanced object that holds
\* objects nested two or more levels deep
DeeplyNested(t) ==
    \E i \in 1..Len(t) :
        /\ t[i] = "{" /\ \A k \in 1..(i - 1) : t[k] # "{"
        /\ ClosingBrace(t, i) > 0
        /\ \E k \in i..ClosingBrace(t, i) : Depth(t, k) >= Depth(t, i) + 3

\* the balanced object that the first opening brace of the text opens
FirstBalancedObject(t) ==
    LET i == CHOOSE k \in 1..Len(t) : t[k] = "{" /\ \A j \in 1..(k - 1) : t[j] # "{"
    IN  SubSeq(t, i, ClosingBrace(t, i))

\* C18: the candidate payload is the first balanced object of the text,
\* found by brace matching at any depth: for a text whose first opening
\* brace opens an object that holds objects nested two or more levels deep,
\* the candidate is that whole outermost object.
C18_CandidateIsOutermostObject ==
    (HasDecoded /\ DeeplyNested(decoding.text))
        => decoding.cleaned_content = FirstBalancedObject(decoding.text)

----------------------------------------------------------------------------
(* Properties of the loop on what the Evaluator returns *)

\* no lexeme of the text is a brace: it holds nothing to parse
NoBraces(t) == \A k \in 1..Len(t) : t[k] \notin {"{", "}"}

\* the Evaluator's call of the last run returned, with a text that cannot
\* be parsed
EvaluatorReturnedMalformed ==
    \E i \in 1..Len(calls) :
        /\ calls[i].agent = "critic"
        /\ ~calls[i].raised
        /\ NoBraces(calls[i].content)

\* the verdicts of the degraded Feedback
IncompleteVerdicts ==
    {"Evaluation incomplete - please try re-evaluation or switch models",
     "Re-evaluation incomplete - please try re-evaluation or switch models"}

\* C12: malformed Evaluator output never aborts a transition: when the
\* Evaluator's call of a submit, a revise() or a reevaluate() returned a
\* text that cannot be parsed, the action succeeded and appended its Cycle
\* (the only one after a submit, one more than before otherwise), that
\* Cycle carries the degraded fallback Feedback, and the session is Active:
\* it has a history, is not terminated and shows its action buttons.
C12_MalformedOutputStillAppends ==
    EvaluatorReturnedMalformed
        => /\ lastAction \in {"submit", "revise", "reevaluate"}
           /\ outcome = "ok"
           /\ Len(history) = IF lastAction = "submit" THEN 1 ELSE before.len + 1
           /\ Last(history).feedback.laughability_score = 50
           /\ Last(history).feedback.overall_verdict \in IncompleteVerdicts
           /\ ~workflow_complete
           /\ history # <<>>

\* a revise() whose Evaluator answered in prose appended a second Cycle
C12_Witness ==
    /\ lastAction = "revise"
    /\ EvaluatorReturnedMalformed
    /\ Len(history) = 2
    /\ Last(history).cycle_type = "revised"
    /\ Last(history).feedback.laughability_score = 50

\* C15: in every reachable state every Cycle of the history carries a fully
\* populated Feedback: a score from 0 to 100, a rating among Child, Teen and
\* Adult, strengths, weaknesses and suggestions that are not empty, and a
\* verdict; no Cycle with a partial or out-of-range Feedback is appended.
C15_HistoryFeedbackPopulated ==
    \A i \in 1..Len(history) : FullyPopulated(history[i].feedback)

\* the Evaluator scored a revision 150: the Cycle stored for it carries the
\* fallback score, after a Cycle scored 85 by a well-formed response
C15_Witness ==
    /\ Len(history) = 2
    /\ history[1].feedback.laughability_score = 85
    /\ lastAction = "revise" /\ outcome = "ok"
    /\ calls[2].content = OutOfRangeJson
    /\ history[2].feedback.laughability_score = 50

----------------------------------------------------------------------------
(* Properties of two sessions *)

\* C16: two sessions share no mutable state: under any interleaving of
\* their script runs, an action of one session (a failed one, a submit that
\* clears its history and a reset included) leaves the history and the
\* terminated flag of the other session unchanged.
C16_SessionsIndependent ==
    [][ current' = current
        => /\ other'.history = other.history
           /\ other'.workflow_complete = other.workflow_complete ]_vars

\* session A was reset while session B, terminated, keeps its two Cycles
C16_Witness ==
    /\ current = "A"
    /\ lastAction = "reset"
    /\ history = <<>>
    /\ Len(other.history) = 2
    /\ other.workflow_complete

----------------------------------------------------------------------------
(* Properties of the calls of one action *)

\* the calls of the last run that went to the model of an agent
CallsTo(agent) == {i \in 1..Len(calls) : calls[i].agent = agent}

\* C19: within one action the two network calls are sequential and
\* ordered: whenever a submit or a revise() called the Evaluator, the
\* Generator had been called first (produce in submit, revise in revise()),
\* that call had returned, and the Evaluator was asked to evaluate exactly
\* the artifact the Generator had just returned, which is also the artifact
\* of the Cycle the action appends.
C19_SequentialAndOrdered ==
    (lastAction \in {"submit", "revise"} /\ CallsTo("critic") # {})
        => /\ Len(calls) = 2
           /\ calls[1].agent = "performer"
           /\ calls[1].op = IF lastAction = "submit" THEN "generate" ELSE "revise"
           /\ ~calls[1].raised
           /\ calls[2].agent = "critic"
           /\ calls[2].op = "evaluate"
           /\ calls[2].joke = strip(calls[1].content)
           /\ outcome = "ok" => Last(history).joke = calls[2].joke

\* a revise() had the Evaluator evaluate the revision, which is not the
\* artifact of the Cycle before
C19_Witness ==
    /\ lastAction = "revise" /\ outcome = "ok"
    /\ Len(history) = 2
    /\ calls[2].joke = history[2].joke
    /\ calls[2].joke # history[1].joke

\* C20: the core never retries a failed call: an action makes at most one
\* Generator call and at most one Evaluator call; a submit or a revise()
\* that succeeds made one of each, a reevaluate() makes no Generator call
\* and, when it succeeds, made one Evaluator call; and when the Generator
\* call of a submit or a revise() failed, no Evaluator call was made.
C20_NoRetry ==
    /\ Cardinality(CallsTo("performer")) <= 1
    /\ Cardinality(CallsTo("critic")) <= 1
    /\ Len(calls) = Cardinality(CallsTo("performer") \cup CallsTo("critic"))
    /\ (lastAction \in {"submit", "revise"} /\ outcome = "ok")
          => Cardinality(CallsTo("performer")) = 1
             /\ Cardinality(CallsTo("critic")) = 1
    /\ lastAction = "reevaluate"
          => /\ CallsTo("performer") = {}
             /\ outcome = "ok" => Cardinality(CallsTo("critic")) = 1
    /\ (\E i \in CallsTo("performer") : calls[i].raised)
          => CallsTo("critic") = {}

\* a submit whose Generator call failed: that call is the only one made
C20_Witness ==
    /\ lastAction = "submit" /\ outcome = "Transport"
    /\ Len(calls) = 1
    /\ calls[1].agent = "performer" /\ calls[1].raised


----------------------------------------------------------------------------
(* A script run step by step: the handler starts, waits inside st.spinner
   for the models, and then either gets their responses or is stopped *)

\* the script run of an action is under way: what the action is, and the
\* st.session_state it found
PendingOf(action, prompt) ==
    [action |-> action, prompt |-> prompt, history |-> history,
     workflow_complete |-> workflow_complete, workflow |-> workflow]

\* the handler of an action has started and waits for the first model
Begins(action, prompt) ==
    /\ pending' = PendingOf(action, prompt)
    /\ Told(action, prompt, "running", <<>>)
    /\ UNCHANGED <<other, current, decoding, cycle_audio>>

\* the script run under way has ended: what the user is told
Ends(how, made) ==
    /\ pending' = NoPending
    /\ lastAction' = pending.action
    /\ lastPrompt' = pending.prompt
    /\ before' = [len |-> Len(pending.history),
                  complete |-> pending.workflow_complete]
    /\ outcome' = how
    /\ calls' = made
    /\ UNCHANGED <<other, current, decoding, cycle_audio>>

\* slip: a click is handled although the script run of another still waits
Idle_Always == TRUE

\* Streamlit runs one script at a time for a session: a click is handled
\* by a new script run, which starts when none is under way
Idle == pending = NoPending

\* main: the Generate button, up to workflow.run.  The history and the
\* flag are reset and the workflow is stored before the models are called
SubmitBegins ==
    /\ Idle
    /\ \E prompt \in Prompts, llms_ok \in BOOLEAN :
           IF EmptyPrompt(prompt)
           THEN /\ UNCHANGED <<history, workflow_complete, workflow>>
                /\ Report("submit", prompt, "InvalidInput", <<>>)
           ELSE IF ~llms_ok
           THEN \* get_performer_llm or get_critic_llm raises: no model is
                \* called and the run ends in the except branch
                generate_new_joke(prompt, FALSE, Raised, Raised)
           ELSE /\ history' = ClearedHistory(history)
                /\ workflow_complete' = FALSE
                /\ workflow' = "JokeWorkflow"
                /\ Begins("submit", prompt)

\* main: workflow.run returns or raises, with the responses p and c
SubmitReturns(performerResponses, criticResponses) ==
    /\ pending.action = "submit"
    /\ \E p \in performerResponses, c \in criticResponses :
           LET r == run(pending.prompt, p, c)
           IN  /\ history' = StoreOnSuccess(history, r.status,
                                            InitialCycle(r.result))
               /\ UNCHANGED <<workflow_complete, workflow>>
               /\ Ends(r.status, r.calls)

\* the Revise Joke button, up to workflow.revise_joke
ReviseBegins ==
    /\ Idle
    /\ IF Rendered
       THEN /\ Len(history) < MaxHistory
            /\ UNCHANGED <<history, workflow_complete, workflow>>
            /\ Begins("revise", "n/a")
       ELSE NotRendered("revise")

\* handle_refine_action: the calls return or raise
ReviseReturns(performerResponses, criticResponses) ==
    /\ pending.action = "revise"
    /\ \E p \in performerResponses, c \in criticResponses :
           LET r == refine(Last(history), p, c)
           IN  /\ history' = StoreOnSuccess(history, r.status, r.cycle)
               /\ UNCHANGED <<workflow_complete, workflow>>
               /\ Ends(r.status, r.calls)

\* the Re-Evaluate button, up to workflow.reevaluate_joke
ReevaluateBegins ==
    /\ Idle
    /\ IF Rendered
       THEN /\ Len(history) < MaxHistory
            /\ UNCHANGED <<history, workflow_complete, workflow>>
            /\ Begins("reevaluate", "n/a")
       ELSE NotRendered("reevaluate")

\* handle_reevaluate_action: the call returns or raises
ReevaluateReturns(criticResponses) ==
    /\ pending.action = "reevaluate"
    /\ \E c \in criticResponses :
           LET r == reevaluate(Last(history), c)
           IN  /\ history' = StoreOnSuccess(history, r.status, r.cycle)
               /\ UNCHANGED <<workflow_complete, workflow>>
               /\ Ends(r.status, r.calls)

\* the I'm All Set button: no model is called, the run ends at once
StepsCompleteButton == Idle /\ CompleteButton

\* the Start Over button: no model is called, the run ends at once
StepsStartOverButton == Idle /\ StartOverButton

\* the script run is stopped while it waits for a model (the user stops
\* it, or leaves): nothing after the call runs, neither the append nor the
\* except branch, and what the run had written to st.session_state stays
RunCancelled ==
    /\ pending # NoPending
    /\ UNCHANGED <<history, workflow_complete, workflow>>
    /\ Ends("Cancelled", <<>>)

NextSteps ==
    \/ SubmitBegins
    \/ SubmitReturns(PerformerResponses, CriticResponses)
    \/ ReviseBegins
    \/ ReviseReturns(PerformerResponses, CriticResponses)
    \/ ReevaluateBegins
    \/ ReevaluateReturns(CriticResponses)
    \/ StepsCompleteButton
    \/ StepsStartOverButton
    \/ RunCancelled

SpecSteps == Init /\ [][NextSteps]_vars



\* llm.invoke blocks until the model has answered or the client has given
\* up (timeout, connection error), so a handler that waits for a model
\* does get its response or its exception
SpecStepsFair ==
    /\ SpecSteps
    /\ WF_vars(SubmitReturns(PerformerResponses, CriticResponses))
    /\ WF_vars(ReviseReturns(PerformerResponses, CriticResponses))
    /\ WF_vars(ReevaluateReturns(CriticResponses))

----------------------------------------------------------------------------
(* Voice playback: display_voice_button under every cycle on display *)

\* generate_standup_voice: the speech of a text (the MP3 bytes OpenAI's TTS
\* returns for it; the voice preset and the speed are left out), or None
\* when there is no API key or the request fails
generate_standup_voice(text, tts_ok) ==
    IF tts_ok THEN [none |-> FALSE, speech_of |-> text]
    ELSE [none |-> TRUE, speech_of |-> <<>>]

\* st.session_state["cycle_audio"][cycle_num] = audio_bytes
StoredAudio(audio, cycle_num, joke_text, audio_bytes) ==
    {item \in audio : item.key # cycle_num}
        \cup {[key |-> cycle_num, audio |-> audio_bytes]}

\* display_voice_button: the Generate Voice button under cycle cycle_num
VoiceButton ==
    \E cycle_num \in 1..Len(history), tts_ok \in BOOLEAN :
        LET joke_text == history[cycle_num].joke
            audio_bytes == generate_standup_voice(joke_text, tts_ok)
        IN  /\ cycle_audio' =
                   IF ~audio_bytes.none
                   THEN StoredAudio(cycle_audio, cycle_num, joke_text,
                                    audio_bytes)
                   ELSE cycle_audio
            /\ Told("voice", "n/a", IF tts_ok THEN "ok" ELSE "NoVoice", <<>>)
            /\ UNCHANGED <<history, workflow_complete, workflow,
                           other, current, decoding, pending>>

\* display_voice_button: the audio players on display, one under each
\* cycle of the history whose number has an item in the dict
PlayedAudio ==
    {item \in cycle_audio : item.key \in 1..Len(history)}

NextVoice ==
    \/ SessionsGenerateButton
    \/ SessionsReviseButton
    \/ SessionsReevaluateButton
    \/ StartOverButton
    \/ VoiceButton

SpecVoice == Init /\ [][NextVoice]_vars

----------------------------------------------------------------------------
(* The refinement loop, continued *)

\* C21: a revision works from the last cycle of the history.  The call to
\* the Performer's model carries the joke and the feedback of the last
\* cycle (after a re-evaluation that is the re-evaluated feedback, not the
\* feedback of the cycle before it), the new cycle's previous_joke is the
\* joke of the last cycle, and the cycles already in the history are left
\* as they were
C21_ReviseWorksFromLastCycle ==
    [][(lastAction' = "revise" /\ calls' # <<>>)
           => /\ calls'[1].agent = "performer"
              /\ calls'[1].op = "revise"
              /\ calls'[1].joke = Last(history).joke
              /\ calls'[1].feedback = Last(history).feedback
              /\ IsPrefix(history, history')
              /\ outcome' = "ok"
                    => Last(history').previous_joke = Last(history).joke]_vars

\* a revision after a re-evaluation whose feedback differs from the
\* feedback of the cycle before it: the revision was given the later one
C21_Witness ==
    /\ lastAction = "revise"
    /\ outcome = "ok"
    /\ Len(history) = 3
    /\ history[2].cycle_type = "reevaluated"
    /\ history[2].feedback # history[1].feedback
    /\ calls[1].feedback = history[2].feedback

\* the actions that call a model
CallingActions == {"submit", "revise", "reevaluate"}

\* a step of one script run: it starts an action only when none is under
\* way, and while one is under way it is that action's end, in one of the
\* ways given; an end that appends adds one cycle
OneAtATime(ends) ==
    /\ pending' # NoPending
          => /\ pending = NoPending
             /\ pending'.action \in CallingActions
             /\ lastAction' = pending'.action
    /\ pending # NoPending
          => /\ pending' = NoPending
             /\ lastAction' = pending.action
             /\ outcome' \in ends
             /\ outcome' = "ok" => Len(history') = Len(history) + 1
    /\ Len(history') <= Len(history) + 1
    /\ (workflow_complete' /\ ~workflow_complete) => history' = history

\* C22 as stated: within one session at most one action is in progress.
\* One click triggers one action, and no second action is accepted before
\* the first has appended its cycle or reported its error
C22_EndsByAppendOrError ==
    [][OneAtATime({"ok", "Transport", "ValueError"})]_vars

\* C22: within one session at most one action is in progress.  One click
\* triggers one action, and no second action is accepted before the first
\* has appended its cycle, reported its error, or been stopped while it
\* waited for a model (in which case it does neither)
C22_OneActionInProgress ==
    [][OneAtATime({"ok", "Transport", "ValueError", "Cancelled"})]_vars

\* a revision is under way after an earlier action on the same history
\* ended by appending its cycle
C22_Witness ==
    /\ pending.action = "revise"
    /\ outcome = "running"
    /\ Len(history) = 2
    /\ pending.history = history

\* C23: an action that is cancelled while its call is in flight leaves the
\* session as it was before the action: the history, the flag and the
\* stored workflow are those the action found, for a submit, a revision
\* and a re-evaluation alike
C23_CancelledLeavesPreActionState ==
    [][outcome' = "Cancelled"
          => /\ history' = pending.history
             /\ workflow_complete' = pending.workflow_complete
             /\ workflow' = pending.workflow]_vars

\* for a revision and a re-evaluation it does: the append is the last
\* statement of the try block
C23_CancelledRefinementLeavesState ==
    [][(outcome' = "Cancelled" /\ lastAction' \in {"revise", "reevaluate"})
          => /\ history' = pending.history
             /\ workflow_complete' = pending.workflow_complete
             /\ workflow' = pending.workflow]_vars

\* C24: the first cycle of a history is of kind initial and every later one
\* is revised or reevaluated; the kind is the one of the action that
\* appended the cycle (submit: initial, revise: revised, reevaluate:
\* reevaluated) and no later action changes it
C24_CycleKinds ==
    [][/\ history' # <<>>
             => /\ history'[1].cycle_type = "initial"
                /\ \A i \in 2..Len(history') :
                       history'[i].cycle_type \in {"revised", "reevaluated"}
       /\ (lastAction' = "submit" /\ outcome' = "ok")
             => Len(history') = 1
       /\ (lastAction' = "revise" /\ Len(history') = Len(history) + 1)
             => Last(history').cycle_type = "revised"
       /\ (lastAction' = "reevaluate" /\ Len(history') = Len(history) + 1)
             => Last(history').cycle_type = "reevaluated"
       /\ lastAction' \in {"revise", "reevaluate", "complete"}
             => \A i \in 1..Len(history) :
                    /\ i <= Len(history')
                    /\ history'[i].cycle_type = history[i].cycle_type]_vars

\* a history with a cycle of each kind, completed afterwards
C24_Witness ==
    /\ Len(history) = 3
    /\ history[1].cycle_type = "initial"
    /\ history[2].cycle_type = "revised"
    /\ history[3].cycle_type = "reevaluated"
    /\ lastAction = "complete"

\* C25: Start Over returns the session to Empty, from Active and from
\* Terminated: the history is empty, the flag is false and the stored
\* workflow is discarded.  In Empty a revision and a re-evaluation are
\* rejected and change nothing, and only a submit makes the session Active
C25_ResetReturnsToEmpty ==
    [][/\ lastAction' = "reset"
             => /\ history' = <<>>
                /\ workflow_complete' = FALSE
                /\ workflow' = "None"
       /\ (history = <<>> /\ lastAction' \in {"revise", "reevaluate"})
             => /\ outcome' = "NoHistory"
                /\ calls' = <<>>
                /\ UNCHANGED <<history, workflow_complete, workflow>>
       /\ (history = <<>> /\ history' # <<>>)
             => lastAction' = "submit"]_vars

\* Start Over was clicked in a Terminated session
C25_Witness ==
    /\ lastAction = "reset"
    /\ before.complete
    /\ before.len > 0
    /\ history = <<>>
    /\ ~workflow_complete
    /\ workflow = "None"

\* C26: the flag is set only while the history is not empty, and every
\* step that empties the history also resets the flag
C26_TerminatedHasHistory ==
    /\ [](workflow_complete => history # <<>>)
    /\ [][(history # <<>> /\ history' = <<>>) => ~workflow_complete']_vars

\* a submit in a Terminated session failed: it emptied the history and
\* reset the flag
C26_Witness ==
    /\ lastAction = "submit"
    /\ lastPrompt # ""
    /\ outcome # "ok"
    /\ before.complete
    /\ history = <<>>
    /\ ~workflow_complete

\* C27: while the history is not empty a workflow is stored, so a revision
\* or a re-evaluation of a non-empty history never ends with "Workflow not
\* initialized" (the ValueError raised before any model is called)
C27_HistoryHasWorkflow ==
    /\ history # <<>> => workflow = "JokeWorkflow"
    /\ (lastAction \in {"revise", "reevaluate"} /\ outcome = "ValueError")
          => calls # <<>>

\* a re-evaluation went through on the workflow a submit had stored
C27_Witness ==
    /\ lastAction = "reevaluate"
    /\ outcome = "ok"
    /\ Len(history) = 2
    /\ workflow = "JokeWorkflow"

\* the Performer's model returned, and what it returned is empty once the
\* surrounding blanks are stripped
EmptyArtifactReturned(made) ==
    /\ made # <<>>
    /\ made[1].agent = "performer"
    /\ ~made[1].raised
    /\ strip(made[1].content) = <<>>

\* C28: every cycle of the history has a joke that is not empty.  A submit
\* or a revision whose Performer returns an empty joke is aborted after
\* that one call and appends nothing; a re-evaluation copies the joke of
\* the last cycle
C28_ArtifactsNotEmpty ==
    /\ [](\A i \in 1..Len(history) : history[i].joke # <<>>)
    /\ [][/\ (lastAction' \in {"submit", "revise"}
                 /\ EmptyArtifactReturned(calls'))
              => /\ outcome' = "ValueError"
                 /\ Len(calls') = 1
                 /\ Len(history') <= Len(history)
                 /\ lastAction' = "revise" => history' = history
          /\ (lastAction' = "reevaluate" /\ outcome' = "ok")
              => Last(history').joke = Last(history).joke]_vars

\* a revision was aborted because the Performer's model returned blanks
C28_Witness ==
    /\ lastAction = "revise"
    /\ outcome = "ValueError"
    /\ EmptyArtifactReturned(calls)
    /\ Len(history) = 2
    /\ history[2].joke # <<>>

\* C29: no data of a cycle carries over between topics.  Every audio in
\* store under a cycle number was generated from the joke of the cycle of
\* that number in the current history, so after a submit of a new topic
\* or a reset no audio of the old history is stored or played
C29_AudioIsOfCurrentHistory ==
    \A item \in cycle_audio :
        /\ item.key \in 1..Len(history)
        /\ item.audio = generate_standup_voice(history[item.key].joke, TRUE)

\* the weaker half: what is played under a cycle is the speech of that cycle
C29_PlayedAudioIsOfItsCycle ==
    \A item \in PlayedAudio :
        item.audio = generate_standup_voice(history[item.key].joke, TRUE)

\* the session is Active: it has a history and is not complete
Active == history # <<>> /\ ~workflow_complete

\* every model the action called returned, and the Performer's joke is not
\* empty; what the Critic returned need not be in the format asked for
CallsReturned(made) ==
    /\ made # <<>>
    /\ \A i \in 1..Len(made) : ~made[i].raised
    /\ ~EmptyArtifactReturned(made)

\* C30: the refinement loop cannot get stuck.  Whatever happened before
\* (failed, rejected and stopped actions included), a submit with a topic
\* is accepted, and in an Active session so are a revision, a
\* re-evaluation and the completion.  An accepted submit, revision or
\* re-evaluation eventually ends, and when every model it called returned
\* it ends by appending its cycle, whether or not the Critic's response
\* could be decoded
C30_LoopNotStuck ==
    /\ [][/\ (Idle /\ lastAction' = "submit" /\ lastPrompt' # "")
                => outcome' \notin {"InvalidInput", "NoHistory",
                                    "SessionComplete"}
          /\ (Idle /\ Active /\ lastAction' \in {"revise", "reevaluate"})
                => pending'.action = lastAction'
          /\ (Idle /\ Active /\ lastAction' = "complete")
                => workflow_complete'
          /\ (pending # NoPending /\ CallsReturned(calls'))
                => /\ outcome' = "ok"
                   /\ Len(history') = Len(history) + 1]_vars
    /\ \A action \in CallingActions :
           (pending.action = action)
               ~> (pending = NoPending /\ lastAction = action)

\* a revision ended by appending its cycle although the Critic's model
\* returned prose instead of JSON
C30_Witness ==
    /\ pending = NoPending
    /\ lastAction = "revise"
    /\ outcome = "ok"
    /\ Len(calls) = 2
    /\ calls[2].content = NotJson
    /\ Len(history) = 2
    /\ Last(history).cycle_type = "revised"

====
